---- MODULE Spec2Model ----
(***************************************************************************)
(* Model of the contacts backend: the authentication / session-token       *)
(* lifecycle (src/routes/auth.py, src/services/auth.py,                    *)
(* src/repository/users.py) and the ownership-scoped contact repository    *)
(* (src/repository/contacts.py).                                           *)
(*                                                                         *)
(* Time is counted in whole seconds, the resolution of the "iat" and "exp" *)
(* claims of an encoded token.  A token is the record of its claims plus   *)
(* a signature mark: the encoding is deterministic (HMAC), so two tokens   *)
(* with equal claims are the same string.                                  *)
(***************************************************************************)
EXTENDS Integers, Sequences, FiniteSets, TLC

VARIABLES
    users,          \* the users table, in id order (users[i].id = i)
    contacts,       \* the contacts table, in insertion order
    nextContactId,  \* the contacts id sequence
    now,            \* wall clock, seconds
    today,          \* local calendar date (datetime.now().date())
    cache,          \* the redis identity cache: email -> entry
    mailQueue,      \* background tasks scheduled by signup, not yet run
    issued,         \* every token the service has signed so far
    inflight,       \* requests suspended between their read and their write
    loadedAt,       \* history: per cache key, when its content was read from the store
    result          \* the request just served and its response

vars == <<users, contacts, nextContactId, now, today, cache, mailQueue, issued, inflight, loadedAt, result>>

----------------------------------------------------------------------------
(* Bounds of the model *)

MaxIssued == 5
MaxContactId == 2
MaxMail == 1
MaxTokens == 1
MaxInflight == 2

Emails == {"a@x.io", "b@x.io"}
Usernames == {"ann", "bob"}
Passwords == {"secret1", "secret2"}
\* passwords chosen at signup; login tries every one of Passwords
SignupPasswords == {"secret1"}
Salts == {1}
ClockPoints == {0, 1, 901}

----------------------------------------------------------------------------
(* Program constants *)

ACCESS_TOKEN_MINUTES == 15
REFRESH_TOKEN_DAYS == 7
EMAIL_TOKEN_DAYS == 1
CACHE_TTL == 300
BIRTHDAY_WINDOW == 7

HTTP_200_OK == 200
HTTP_201_CREATED == 201
HTTP_204_NO_CONTENT == 204
HTTP_400_BAD_REQUEST == 400
HTTP_401_UNAUTHORIZED == 401
HTTP_404_NOT_FOUND == 404
HTTP_409_CONFLICT == 409
HTTP_422_UNPROCESSABLE_ENTITY == 422
HTTP_500_INTERNAL_SERVER_ERROR == 500

\* src/conf/messages.py: the detail strings of the auth routes
ACCOUNT_EXIST == "ACCOUNT_EXIST"
INVALID_EMAIL == "INVALID_EMAIL"
EMAIL_NOT_CONFIRMED == "EMAIL_NOT_CONFIRMED"
INVALID_PASSWORD == "INVALID_PASSWORD"
INVALID_REFRESH_TOKEN == "INVALID_REFRESH_TOKEN"
VERIFICATION_ERROR == "VERIFICATION_ERROR"

----------------------------------------------------------------------------
(* Absent values (Python None) of each record shape *)

NoToken == [sub |-> "", iat |-> 0, exp |-> 0, scope |-> "", sig |-> "none"]

NoHash == [scheme |-> "", salt |-> 0, pw |-> ""]

NoAvatar == [host |-> "", key |-> "", version |-> 0]

NoUser ==
    [id |-> 0, username |-> "", email |-> "", password |-> NoHash,
     avatar |-> NoAvatar, refresh_token |-> NoToken, confirmed |-> FALSE,
     created_at |-> 0, updated_at |-> 0]

\* a string no service key ever signed
Garbage == [sub |-> "", iat |-> 0, exp |-> 0, scope |-> "", sig |-> "bad"]

----------------------------------------------------------------------------
(* Credential hasher: passlib CryptContext(schemes=["bcrypt"]) *)

get_password_hash(password, salt) ==
    [scheme |-> "bcrypt", salt |-> salt, pw |-> password]

verify_password(plain_password, hashed_password) ==
    /\ hashed_password.scheme = "bcrypt"
    /\ hashed_password.pw = plain_password

----------------------------------------------------------------------------
(* Token codec *)

\* Optional[float] as a set: {} is None, {s} is the value s
Truthy(opt) == opt # {} /\ (CHOOSE s \in opt : TRUE) # 0

OptValue(opt) == CHOOSE s \in opt : TRUE

create_access_token(sub, t, expires_delta) ==
    [sub |-> sub, iat |-> t,
     exp |-> IF Truthy(expires_delta)
             THEN t + OptValue(expires_delta)
             ELSE t + ACCESS_TOKEN_MINUTES * 60,
     scope |-> "access_token", sig |-> "ok"]

create_refresh_token(sub, t, expires_delta) ==
    [sub |-> sub, iat |-> t,
     exp |-> IF Truthy(expires_delta)
             THEN t + OptValue(expires_delta)
             ELSE t + REFRESH_TOKEN_DAYS * 86400,
     scope |-> "refresh_token", sig |-> "ok"]

\* no "scope" key in the claims: scope "none"
create_email_token(sub, t) ==
    [sub |-> sub, iat |-> t, exp |-> t + EMAIL_TOKEN_DAYS * 86400,
     scope |-> "none", sig |-> "ok"]

\* jose.jwt.decode: JWTError on a bad signature or when exp < now
JwtDecodeFails(token, t) == token.sig # "ok" \/ token.exp < t

\* outcome of a decode: the subject, or the error the caller sees
Decoded(email) == [ok |-> TRUE, email |-> email, status |-> HTTP_200_OK, detail |-> ""]

DecodeError(status, detail) == [ok |-> FALSE, email |-> "", status |-> status, detail |-> detail]

decode_refresh_token(token, t) ==
    IF JwtDecodeFails(token, t)
    THEN DecodeError(HTTP_401_UNAUTHORIZED, "Could not validate credentials")
    ELSE IF token.scope = "none"
    THEN DecodeError(HTTP_500_INTERNAL_SERVER_ERROR, "KeyError: scope")
    ELSE IF token.scope = "refresh_token"
    THEN Decoded(token.sub)
    ELSE DecodeError(HTTP_401_UNAUTHORIZED, "Invalid scope for token")

\* the decoding half of get_current_user
decode_access_token(token, t) ==
    IF JwtDecodeFails(token, t)
    THEN DecodeError(HTTP_401_UNAUTHORIZED, "Could not validate credentials")
    ELSE IF token.scope = "none"
    THEN DecodeError(HTTP_500_INTERNAL_SERVER_ERROR, "KeyError: scope")
    ELSE IF token.scope = "access_token"
    THEN Decoded(token.sub)
    ELSE DecodeError(HTTP_401_UNAUTHORIZED, "Could not validate credentials")

get_email_from_token(token, t) ==
    IF JwtDecodeFails(token, t)
    THEN DecodeError(HTTP_422_UNPROCESSABLE_ENTITY, "Invalid token for email verification")
    ELSE Decoded(token.sub)

----------------------------------------------------------------------------
(* User repository *)

UserIds(us) == 1..Len(us)

\* variant: the email filter is dropped, the first row is returned
get_user_by_email_AnyRow(email, us) ==
    IF us # <<>> THEN us[1] ELSE NoUser

get_user_by_email(email, us) ==
    IF \E i \in UserIds(us) : us[i].email = email
    THEN us[CHOOSE i \in UserIds(us) : us[i].email = email]
    ELSE NoUser

Gravatar(email) == [host |-> "gravatar", key |-> email, version |-> 0]

\* variant: the row is inserted as already confirmed
NewUser_Confirmed(username, email, password, us, t) ==
    [id |-> Len(us) + 1, username |-> username, email |-> email,
     password |-> password, avatar |-> Gravatar(email),
     refresh_token |-> NoToken, confirmed |-> TRUE,
     created_at |-> t, updated_at |-> t]

\* the row create_user inserts; the insert fails on a unique-key violation
NewUser(username, email, password, us, t) ==
    [id |-> Len(us) + 1, username |-> username, email |-> email,
     password |-> password, avatar |-> Gravatar(email),
     refresh_token |-> NoToken, confirmed |-> FALSE,
     created_at |-> t, updated_at |-> t]

UniqueViolation(username, email, us) ==
    \E i \in UserIds(us) : us[i].username = username \/ us[i].email = email

create_user(username, email, password, us, t) ==
    Append(us, NewUser(username, email, password, us, t))

\* variant: a token already stored is not replaced by a new one
update_token_KeepStored(user, token, us, t) ==
    [us EXCEPT ![user.id] =
        IF @.refresh_token = token \/ (@.refresh_token # NoToken /\ token # NoToken) THEN @
        ELSE [@ EXCEPT !.refresh_token = token, !.updated_at = t]]

\* an UPDATE is emitted (and updated_at refreshed) only for a changed value
update_token(user, token, us, t) ==
    [us EXCEPT ![user.id] =
        IF @.refresh_token = token THEN @
        ELSE [@ EXCEPT !.refresh_token = token, !.updated_at = t]]

\* variant: the flag is not written
confirmed_email_Noop(email, us, t) == us

confirmed_email(email, us, t) ==
    [i \in UserIds(us) |->
        IF us[i].email = email /\ ~us[i].confirmed
        THEN [us[i] EXCEPT !.confirmed = TRUE, !.updated_at = t]
        ELSE us[i]]

\* user.avatar = url; commit; refresh
update_avatar_url(email, url, us, t) ==
    [i \in UserIds(us) |->
        IF us[i].email = email /\ us[i].avatar # url
        THEN [us[i] EXCEPT !.avatar = url, !.updated_at = t]
        ELSE us[i]]

----------------------------------------------------------------------------
(* Contact rows *)

NoDate == [y |-> 0, m |-> 0, d |-> 0]

NoContact ==
    [id |-> 0, first_name |-> <<>>, last_name |-> <<>>, email |-> <<>>,
     phone_number |-> "", birthday |-> NoDate, additional_data |-> "",
     user_id |-> 0, created_at |-> 0, updated_at |-> 0]

----------------------------------------------------------------------------
(* The request just served and its response.  Every handler overwrites it. *)

NoResult ==
    [op |-> "", status |-> 0, detail |-> "",
     email |-> "", password |-> "", presented |-> NoToken, expires_delta |-> {},
     access_token |-> NoToken, refresh_token |-> NoToken,
     user |-> NoUser, from_cache |-> FALSE,
     owner |-> 0, id |-> 0, contact |-> NoContact, list |-> <<>>]

Response(op, status, detail) ==
    [NoResult EXCEPT !.op = op, !.status = status, !.detail = detail]

----------------------------------------------------------------------------
(* Identity cache: redis get / set / expire *)

NoEntry == [user |-> NoUser, expires |-> 0]

\* variant: the cache never answers
cache_get_Miss(c, key, t) == NoUser

cache_get(c, key, t) ==
    IF c[key].user # NoUser /\ t < c[key].expires THEN c[key].user ELSE NoUser

cache_set_expire(c, key, user, t, ttl) ==
    [c EXCEPT ![key] = [user |-> user, expires |-> t + ttl]]

\* redis drops the keys whose time to live has run out
cache_purge(c, t) ==
    [k \in DOMAIN c |-> IF t < c[k].expires THEN c[k] ELSE NoEntry]

----------------------------------------------------------------------------
(* Auth routes: src/routes/auth.py *)

\* variant: no pre-check, the insert is always attempted
signup_conflict_Never(email, us) == FALSE

\* the pre-check of signup: the email is already registered
signup_conflict(email, us) == get_user_by_email(email, us) # NoUser

Signup(username, email, password, salt) ==
    LET hashed == get_password_hash(password, salt)
        new_user == NewUser(username, email, hashed, users, now)
    IN  /\ Len(mailQueue) < MaxMail
        /\ IF signup_conflict(email, users)
           THEN /\ result' = [Response("signup", HTTP_409_CONFLICT, ACCOUNT_EXIST)
                                EXCEPT !.email = email]
                /\ UNCHANGED <<users, mailQueue>>
           ELSE IF UniqueViolation(username, email, users)
           THEN \* IntegrityError at commit: rolled back, unhandled
                /\ result' = [Response("signup", HTTP_500_INTERNAL_SERVER_ERROR, "IntegrityError")
                                EXCEPT !.email = email]
                /\ UNCHANGED <<users, mailQueue>>
           ELSE /\ users' = create_user(username, email, hashed, users, now)
                /\ mailQueue' = Append(mailQueue, [email |-> email, username |-> username])
                /\ result' = [Response("signup", HTTP_201_CREATED, "")
                                EXCEPT !.email = email, !.user = new_user]
        /\ UNCHANGED <<contacts, nextContactId, now, today, cache, issued, inflight, loadedAt>>

\* the three checks of login, in order: the detail of the first that fails
\* variant: the password is verified before the confirmed flag is read
login_failure_PasswordFirst(user, password) ==
    IF user = NoUser THEN INVALID_EMAIL
    ELSE IF ~verify_password(password, user.password) THEN INVALID_PASSWORD
    ELSE IF ~user.confirmed THEN EMAIL_NOT_CONFIRMED
    ELSE ""

login_failure(user, password) ==
    IF user = NoUser THEN INVALID_EMAIL
    ELSE IF ~user.confirmed THEN EMAIL_NOT_CONFIRMED
    ELSE IF ~verify_password(password, user.password) THEN INVALID_PASSWORD
    ELSE ""

\* variant: the confirmed flag is not looked at
Login_Unconfirmed(email, password) ==
    LET user == get_user_by_email(email, users)
        access_token == create_access_token(user.email, now, {})
        refresh_token == create_refresh_token(user.email, now, {})
        failure == IF user = NoUser THEN INVALID_EMAIL
                   ELSE IF ~verify_password(password, user.password) THEN INVALID_PASSWORD
                   ELSE ""
    IN  /\ IF failure # ""
           THEN /\ result' = [Response("login", HTTP_401_UNAUTHORIZED, failure)
                                EXCEPT !.email = email, !.password = password]
                /\ UNCHANGED <<users, issued>>
           ELSE /\ Cardinality(issued \cup {access_token, refresh_token}) <= MaxIssued
                /\ issued' = issued \cup {access_token, refresh_token}
                /\ users' = update_token(user, refresh_token, users, now)
                /\ result' = [Response("login", HTTP_200_OK, "")
                                EXCEPT !.email = email, !.password = password,
                                       !.access_token = access_token,
                                       !.refresh_token = refresh_token]
        /\ UNCHANGED <<contacts, nextContactId, now, today, cache, mailQueue, inflight, loadedAt>>

Login(email, password) ==
    LET user == get_user_by_email(email, users)
        access_token == create_access_token(user.email, now, {})
        refresh_token == create_refresh_token(user.email, now, {})
        failure == login_failure(user, password)
    IN  /\ IF failure # ""
           THEN /\ result' = [Response("login", HTTP_401_UNAUTHORIZED, failure)
                                EXCEPT !.email = email, !.password = password]
                /\ UNCHANGED <<users, issued>>
           ELSE /\ Cardinality(issued \cup {access_token, refresh_token}) <= MaxIssued
                /\ issued' = issued \cup {access_token, refresh_token}
                /\ users' = update_token(user, refresh_token, users, now)
                /\ result' = [Response("login", HTTP_200_OK, "")
                                EXCEPT !.email = email, !.password = password,
                                       !.access_token = access_token,
                                       !.refresh_token = refresh_token]
        /\ UNCHANGED <<contacts, nextContactId, now, today, cache, mailQueue, inflight, loadedAt>>

\* variant: the mismatch only fails the request
revoke_token_Keep(user, us, t) == us

\* the mismatch branch of refresh_token: the stored token is cleared
revoke_token(user, us, t) == update_token(user, NoToken, us, t)

RefreshToken(token) ==
    LET dec == decode_refresh_token(token, now)
        email == dec.email
        user == get_user_by_email(email, users)
        access_token == create_access_token(email, now, {})
        refresh_token == create_refresh_token(email, now, {})
    IN  /\ IF ~dec.ok
           THEN /\ result' = [Response("refresh", dec.status, dec.detail)
                                EXCEPT !.presented = token]
                /\ UNCHANGED <<users, issued>>
           ELSE IF user = NoUser
           THEN \* user.refresh_token on None: AttributeError, unhandled
                /\ result' = [Response("refresh", HTTP_500_INTERNAL_SERVER_ERROR, "AttributeError")
                                EXCEPT !.presented = token, !.email = email]
                /\ UNCHANGED <<users, issued>>
           ELSE IF user.refresh_token # token
           THEN /\ users' = revoke_token(user, users, now)
                /\ result' = [Response("refresh", HTTP_401_UNAUTHORIZED, INVALID_REFRESH_TOKEN)
                                EXCEPT !.presented = token, !.email = email]
                /\ UNCHANGED issued
           ELSE /\ Cardinality(issued \cup {access_token, refresh_token}) <= MaxIssued
                /\ issued' = issued \cup {access_token, refresh_token}
                /\ users' = update_token(user, refresh_token, users, now)
                /\ result' = [Response("refresh", HTTP_200_OK, "")
                                EXCEPT !.presented = token, !.email = email,
                                       !.access_token = access_token,
                                       !.refresh_token = refresh_token]
        /\ UNCHANGED <<contacts, nextContactId, now, today, cache, mailQueue, inflight, loadedAt>>

ConfirmedEmail(token) ==
    LET dec == get_email_from_token(token, now)
        email == dec.email
        user == get_user_by_email(email, users)
    IN  /\ IF ~dec.ok
           THEN /\ result' = [Response("confirmed_email", dec.status, dec.detail)
                                EXCEPT !.presented = token]
                /\ UNCHANGED users
           ELSE IF user = NoUser
           THEN /\ result' = [Response("confirmed_email", HTTP_400_BAD_REQUEST, VERIFICATION_ERROR)
                                EXCEPT !.presented = token, !.email = email]
                /\ UNCHANGED users
           ELSE IF user.confirmed
           THEN /\ result' = [Response("confirmed_email", HTTP_200_OK, "Your email is already confirmed")
                                EXCEPT !.presented = token, !.email = email]
                /\ UNCHANGED users
           ELSE /\ users' = confirmed_email(email, users, now)
                /\ result' = [Response("confirmed_email", HTTP_200_OK, "Email confirmed")
                                EXCEPT !.presented = token, !.email = email]
        /\ UNCHANGED <<contacts, nextContactId, now, today, cache, mailQueue, issued, inflight, loadedAt>>

\* Auth.get_current_user, as served by GET /users/me
GetCurrentUser(token) ==
    LET dec == decode_access_token(token, now)
        email == dec.email
        cached == cache_get(cache, email, now)
        user == get_user_by_email(email, users)
    IN  /\ IF ~dec.ok
           THEN /\ result' = [Response("get_current_user", dec.status, dec.detail)
                                EXCEPT !.presented = token]
                /\ UNCHANGED cache
           ELSE IF cached # NoUser
           THEN /\ result' = [Response("get_current_user", HTTP_200_OK, "")
                                EXCEPT !.presented = token, !.email = email,
                                       !.user = cached, !.from_cache = TRUE]
                /\ UNCHANGED cache
           ELSE IF user = NoUser
           THEN /\ result' = [Response("get_current_user", HTTP_401_UNAUTHORIZED, "Could not validate credentials")
                                EXCEPT !.presented = token, !.email = email]
                /\ UNCHANGED cache
           ELSE /\ cache' = cache_set_expire(cache, email, user, now, CACHE_TTL)
                /\ result' = [Response("get_current_user", HTTP_200_OK, "")
                                EXCEPT !.presented = token, !.email = email, !.user = user]
        /\ loadedAt' = IF dec.ok /\ cached = NoUser /\ user # NoUser
                       THEN [loadedAt EXCEPT ![email] = now]
                       ELSE loadedAt
        /\ UNCHANGED <<users, contacts, nextContactId, now, today, mailQueue, issued, inflight>>

\* what cloudinary.uploader.upload returns; the call raises when it fails
NoUpload == [ok |-> FALSE, version |-> 0]

CloudinaryUrl(email, version) ==
    [host |-> "cloudinary", key |-> email, version |-> version]

\* PATCH /users/avatar: the get_current_user dependency, then the route body.
\* On a cache miss `user` is the row loaded in the request's session, the
\* same instance update_avatar_url modifies and refreshes; on a cache hit
\* `user` is the unpickled snapshot, which the update does not touch.
UpdateAvatar(token, upload) ==
    LET dec == decode_access_token(token, now)
        email == dec.email
        cached == cache_get(cache, email, now)
        row == get_user_by_email(email, users)
        resolved == IF cached # NoUser THEN cache
                    ELSE cache_set_expire(cache, email, row, now, CACHE_TTL)
        res_url == CloudinaryUrl(email, upload.version)
        stored == update_avatar_url(email, res_url, users, now)
        updated_user == get_user_by_email(email, stored)
        user == IF cached # NoUser THEN cached ELSE updated_user
    IN  /\ IF ~dec.ok
           THEN /\ result' = [Response("update_avatar", dec.status, dec.detail)
                                EXCEPT !.presented = token]
                /\ UNCHANGED <<users, cache>>
           ELSE IF cached = NoUser /\ row = NoUser
           THEN /\ result' = [Response("update_avatar", HTTP_401_UNAUTHORIZED, "Could not validate credentials")
                                EXCEPT !.presented = token, !.email = email]
                /\ UNCHANGED <<users, cache>>
           ELSE IF ~upload.ok
           THEN \* the upload raises: unhandled
                /\ result' = [Response("update_avatar", HTTP_500_INTERNAL_SERVER_ERROR, "cloudinary.exceptions.Error")
                                EXCEPT !.presented = token, !.email = email,
                                       !.from_cache = (cached # NoUser)]
                /\ cache' = resolved
                /\ UNCHANGED users
           ELSE IF row = NoUser
           THEN \* update_avatar_url: user is None, AttributeError
                /\ result' = [Response("update_avatar", HTTP_500_INTERNAL_SERVER_ERROR, "AttributeError")
                                EXCEPT !.presented = token, !.email = email,
                                       !.from_cache = (cached # NoUser)]
                /\ cache' = resolved
                /\ UNCHANGED users
           ELSE /\ users' = stored
                /\ cache' = cache_set_expire(cache, email, user, now, CACHE_TTL)
                /\ result' = [Response("update_avatar", HTTP_200_OK, "")
                                EXCEPT !.presented = token, !.email = email,
                                       !.user = updated_user,
                                       !.from_cache = (cached # NoUser)]
        /\ loadedAt' = IF dec.ok /\ cached = NoUser /\ row # NoUser
                       THEN [loadedAt EXCEPT ![email] = now]
                       ELSE loadedAt
        /\ UNCHANGED <<contacts, nextContactId, now, today, mailQueue, issued, inflight>>

\* variant: a failed dispatch turns the answer of the signup into an error
SendEmail_FailureSurfaces(delivered) ==
    LET task == Head(mailQueue)
        token == create_email_token(task.email, now)
    IN  /\ mailQueue # <<>>
        /\ mailQueue' = Tail(mailQueue)
        /\ IF delivered
           THEN /\ Cardinality(issued \cup {token}) <= MaxIssued
                /\ issued' = issued \cup {token}
                /\ UNCHANGED result
           ELSE /\ result' = [result EXCEPT !.status = HTTP_500_INTERNAL_SERVER_ERROR]
                /\ UNCHANGED issued
        /\ UNCHANGED <<users, contacts, nextContactId, now, today, cache, inflight, loadedAt>>

\* the background task of signup: send_email builds the confirmation token
\* and hands the message to the mail server; a failure is swallowed
SendEmail(delivered) ==
    LET task == Head(mailQueue)
        token == create_email_token(task.email, now)
    IN  /\ mailQueue # <<>>
        /\ mailQueue' = Tail(mailQueue)
        /\ IF delivered
           THEN /\ Cardinality(issued \cup {token}) <= MaxIssued
                /\ issued' = issued \cup {token}
           ELSE UNCHANGED issued
        /\ UNCHANGED <<users, contacts, nextContactId, now, today, cache, result, inflight, loadedAt>>

Tick(t) ==
    /\ t > now
    /\ now' = t
    /\ cache' = cache_purge(cache, t)
    /\ UNCHANGED <<users, contacts, nextContactId, today, mailQueue, issued, result, inflight, loadedAt>>

----------------------------------------------------------------------------
(* signup as the event loop runs it: the handler is suspended at each      *)
(* await, so another signup can run between the pre-check                  *)
(* (await get_user_by_email) and the insert (await db.commit)              *)

RequestIds == 1..MaxInflight

\* signup up to the insert: the pre-check and the hashing of the password
SignupPreCheck(rid, username, email, password, salt) ==
    /\ \A r \in inflight : r.rid # rid
    /\ IF signup_conflict(email, users)
       THEN /\ result' = [Response("signup", HTTP_409_CONFLICT, ACCOUNT_EXIST)
                            EXCEPT !.email = email]
            /\ UNCHANGED inflight
       ELSE /\ inflight' = inflight \cup
                    {[rid |-> rid, username |-> username, email |-> email,
                      password |-> get_password_hash(password, salt)]}
            /\ UNCHANGED result
    /\ UNCHANGED <<users, contacts, nextContactId, now, today, cache, mailQueue, issued, loadedAt>>

\* signup from the insert on: create_user, the background task, the response
SignupInsert(req) ==
    /\ req \in inflight
    /\ inflight' = inflight \ {req}
    /\ IF UniqueViolation(req.username, req.email, users)
       THEN \* IntegrityError at commit: rolled back, unhandled
            /\ result' = [Response("signup", HTTP_500_INTERNAL_SERVER_ERROR, "IntegrityError")
                            EXCEPT !.email = req.email]
            /\ UNCHANGED <<users, mailQueue>>
       ELSE /\ Len(mailQueue) < MaxMail
            /\ users' = create_user(req.username, req.email, req.password, users, now)
            /\ mailQueue' = Append(mailQueue, [email |-> req.email, username |-> req.username])
            /\ result' = [Response("signup", HTTP_201_CREATED, "")
                            EXCEPT !.email = req.email,
                                   !.user = NewUser(req.username, req.email, req.password, users, now)]
    /\ UNCHANGED <<contacts, nextContactId, now, today, cache, issued, loadedAt>>

----------------------------------------------------------------------------
(* refresh_token as the event loop runs it: the handler is suspended at    *)
(* await get_user_by_email and again at the commit of update_token, so     *)
(* another refresh can run between the read of the user and the write.     *)

\* update_token on the instance a request loaded earlier: the UPDATE is
\* emitted when the new value differs from the loaded one, and sets only
\* the token column (and updated_at) of the stored row
update_token_loaded(user, token, us, t) ==
    IF user.refresh_token = token THEN us
    ELSE [us EXCEPT ![user.id] = [@ EXCEPT !.refresh_token = token, !.updated_at = t]]

\* refresh_token up to the return of get_user_by_email
RefreshRead(rid, token) ==
    LET dec == decode_refresh_token(token, now)
        email == dec.email
        user == get_user_by_email(email, users)
    IN  /\ \A r \in inflight : r.rid # rid
        /\ IF ~dec.ok
           THEN /\ result' = [Response("refresh", dec.status, dec.detail)
                                EXCEPT !.presented = token]
                /\ UNCHANGED inflight
           ELSE IF user = NoUser
           THEN \* user.refresh_token on None: AttributeError, unhandled
                /\ result' = [Response("refresh", HTTP_500_INTERNAL_SERVER_ERROR, "AttributeError")
                                EXCEPT !.presented = token, !.email = email]
                /\ UNCHANGED inflight
           ELSE /\ inflight' = inflight \cup
                        {[rid |-> rid, token |-> token, email |-> email, user |-> user]}
                /\ UNCHANGED result
        /\ UNCHANGED <<users, contacts, nextContactId, now, today, cache, mailQueue, issued, loadedAt>>

\* refresh_token from the comparison on: the tokens, update_token, the response
RefreshWrite(req) ==
    LET access_token == create_access_token(req.email, now, {})
        refresh_token == create_refresh_token(req.email, now, {})
    IN  /\ req \in inflight
        /\ inflight' = inflight \ {req}
        /\ IF req.user.refresh_token # req.token
           THEN /\ users' = update_token_loaded(req.user, NoToken, users, now)
                /\ result' = [Response("refresh", HTTP_401_UNAUTHORIZED, INVALID_REFRESH_TOKEN)
                                EXCEPT !.presented = req.token, !.email = req.email]
                /\ UNCHANGED issued
           ELSE /\ Cardinality(issued \cup {access_token, refresh_token}) <= MaxIssued
                /\ issued' = issued \cup {access_token, refresh_token}
                /\ users' = update_token_loaded(req.user, refresh_token, users, now)
                /\ result' = [Response("refresh", HTTP_200_OK, "")
                                EXCEPT !.presented = req.token, !.email = req.email,
                                       !.access_token = access_token,
                                       !.refresh_token = refresh_token]
        /\ UNCHANGED <<contacts, nextContactId, now, today, cache, mailQueue, loadedAt>>

----------------------------------------------------------------------------
(* Text columns are sequences of characters, so that ILIKE can be computed *)

Lower(c) ==
    CASE c = "A" -> "a" [] c = "B" -> "b" [] c = "T" -> "t"
      [] c = "E" -> "e" [] c = "S" -> "s" [] OTHER -> c

LowerStr(str) == [i \in 1..Len(str) |-> Lower(str[i])]

\* SQL LIKE: % matches any run of characters, _ any one character
RECURSIVE Like(_, _)
Like(str, pat) ==
    IF pat = <<>> THEN str = <<>>
    ELSE IF Head(pat) = "%"
    THEN Like(str, Tail(pat)) \/ (str # <<>> /\ Like(Tail(str), pat))
    ELSE /\ str # <<>>
         /\ (Head(pat) = "_" \/ Head(pat) = Head(str))
         /\ Like(Tail(str), Tail(pat))

ilike(column, pat) == Like(LowerStr(column), LowerStr(pat))

----------------------------------------------------------------------------
(* Calendar arithmetic of datetime.date *)

IsLeap(y) == (y % 4 = 0 /\ y % 100 # 0) \/ y % 400 = 0

DaysInMonth(y, m) ==
    CASE m = 2 -> IF IsLeap(y) THEN 29 ELSE 28
      [] m \in {4, 6, 9, 11} -> 30
      [] OTHER -> 31

ValidDate(y, m, d) == m \in 1..12 /\ d >= 1 /\ d <= DaysInMonth(y, m)

RECURSIVE DaysBeforeMonth(_, _)
DaysBeforeMonth(y, m) ==
    IF m = 1 THEN 0 ELSE DaysBeforeMonth(y, m - 1) + DaysInMonth(y, m - 1)

DaysBeforeYear(y) ==
    (y - 1) * 365 + ((y - 1) \div 4) - ((y - 1) \div 100) + ((y - 1) \div 400)

toordinal(date) == DaysBeforeYear(date.y) + DaysBeforeMonth(date.y, date.m) + date.d

\* outcome of days_to_birthday: the day count, or the exception it raises
DayCount(n) == [ok |-> TRUE, days |-> n]

Raises == [ok |-> FALSE, days |-> 0]

days_to_birthday(birthday, day) ==
    IF birthday = NoDate
    THEN Raises     \* strptime("None", "%Y-%m-%d"): ValueError
    ELSE IF ~ValidDate(day.y, birthday.m, birthday.d)
    THEN Raises     \* datetime(today.year, 2, 29): ValueError
    ELSE LET this_year == [y |-> day.y, m |-> birthday.m, d |-> birthday.d]
             next_year == [y |-> day.y + 1, m |-> birthday.m, d |-> birthday.d]
         IN  IF toordinal(day) > toordinal(this_year)
             THEN IF ~ValidDate(next_year.y, next_year.m, next_year.d)
                  THEN Raises
                  ELSE DayCount(toordinal(next_year) - toordinal(day))
             ELSE DayCount(toordinal(this_year) - toordinal(day))

----------------------------------------------------------------------------
(* Contact repository: src/repository/contacts.py *)

Positions(cs) == 1..Len(cs)

RECURSIVE SelectSeq2(_, _, _)
\* the rows of cs, in table order, at the positions in keep
SelectSeq2(cs, keep, i) ==
    IF i > Len(cs) THEN <<>>
    ELSE IF i \in keep THEN <<cs[i]>> \o SelectSeq2(cs, keep, i + 1)
    ELSE SelectSeq2(cs, keep, i + 1)

Rows(cs, keep) == SelectSeq2(cs, keep, 1)

\* OFFSET offset LIMIT limit
Page(rows, limit, offset) ==
    SubSeq(rows, offset + 1, IF offset + limit < Len(rows) THEN offset + limit ELSE Len(rows))

\* search is <<>> when the caller gives none (and "if search:" is false for "")
Matches(c, search) ==
    LET pat == <<"%">> \o search \o <<"%">>
    IN  ilike(c.first_name, pat) \/ ilike(c.last_name, pat) \/ ilike(c.email, pat)

get_contacts(limit, offset, user_id, cs, search) ==
    LET keep == {i \in Positions(cs) :
                    /\ cs[i].user_id = user_id
                    /\ (search # <<>> => Matches(cs[i], search))}
    IN  Page(Rows(cs, keep), limit, offset)

\* variant: the lookup is by id alone
get_contact_AnyOwner(contact_id, user_id, cs) ==
    IF \E i \in Positions(cs) : cs[i].id = contact_id
    THEN cs[CHOOSE i \in Positions(cs) : cs[i].id = contact_id]
    ELSE NoContact

get_contact(contact_id, user_id, cs) ==
    IF \E i \in Positions(cs) : cs[i].id = contact_id /\ cs[i].user_id = user_id
    THEN cs[CHOOSE i \in Positions(cs) : cs[i].id = contact_id /\ cs[i].user_id = user_id]
    ELSE NoContact

\* the constraints of the contacts table: NOT NULL columns, UNIQUE email
NotNullViolation(c) ==
    \/ c.first_name = <<>> \/ c.last_name = <<>> \/ c.email = <<>>
    \/ c.phone_number = "" \/ c.birthday = NoDate

EmailTaken(c, cs) ==
    \E i \in Positions(cs) : cs[i].id # c.id /\ cs[i].email = c.email

\* variant: the row is inserted without its owner
NewContact_Unowned(body, user_id, id, t) ==
    [id |-> id, first_name |-> body.first_name, last_name |-> body.last_name,
     email |-> body.email, phone_number |-> body.phone_number,
     birthday |-> body.birthday, additional_data |-> body.additional_data,
     user_id |-> 0, created_at |-> t, updated_at |-> t]

NewContact(body, user_id, id, t) ==
    [id |-> id, first_name |-> body.first_name, last_name |-> body.last_name,
     email |-> body.email, phone_number |-> body.phone_number,
     birthday |-> body.birthday, additional_data |-> body.additional_data,
     user_id |-> user_id, created_at |-> t, updated_at |-> t]

\* variant: a replace, the fields the payload leaves out are reset
Patched_Replace(c, payload) ==
    [f \in DOMAIN c |->
        IF f \in DOMAIN payload.values THEN payload.values[f] ELSE c[f]]

\* setattr for every field the payload sets
Patched(c, payload) ==
    [f \in DOMAIN c |->
        IF f \in payload.fields THEN payload.values[f] ELSE c[f]]

\* the row after commit: an UPDATE (and onupdate) only when a value changed
Updated(c, payload, t) ==
    IF Patched(c, payload) = c THEN c
    ELSE [Patched(c, payload) EXCEPT !.updated_at = t]

Replace(cs, c) == [i \in Positions(cs) |-> IF cs[i].id = c.id THEN c ELSE cs[i]]

\* variant: every row of the contact's owner goes
Remove_OfOwner(cs, c) == Rows(cs, {i \in Positions(cs) : cs[i].user_id # c.user_id})

Remove(cs, c) == Rows(cs, {i \in Positions(cs) : cs[i].id # c.id})

\* outcome of a repository call: the row it returns (NoContact for None),
\* whether the commit raised, and the table afterwards
Outcome(contact, raised, table) == [contact |-> contact, raised |-> raised, table |-> table]

create_contact(body, user_id, cs, id, t) ==
    LET contact == NewContact(body, user_id, id, t)
    IN  IF NotNullViolation(contact) \/ EmailTaken(contact, cs)
        THEN Outcome(NoContact, TRUE, cs)
        ELSE Outcome(contact, FALSE, Append(cs, contact))

\* variant: the row to update is fetched by id alone
update_contact_AnyOwner(contact_id, payload, user_id, cs, t) ==
    LET contact == get_contact_AnyOwner(contact_id, user_id, cs)
        updated == Updated(contact, payload, t)
    IN  IF contact = NoContact THEN Outcome(NoContact, FALSE, cs)
        ELSE IF NotNullViolation(updated) \/ EmailTaken(updated, cs)
        THEN Outcome(NoContact, TRUE, cs)
        ELSE Outcome(updated, FALSE, Replace(cs, updated))

update_contact(contact_id, payload, user_id, cs, t) ==
    LET contact == get_contact(contact_id, user_id, cs)
        updated == Updated(contact, payload, t)
    IN  IF contact = NoContact THEN Outcome(NoContact, FALSE, cs)
        ELSE IF NotNullViolation(updated) \/ EmailTaken(updated, cs)
        THEN Outcome(NoContact, TRUE, cs)
        ELSE Outcome(updated, FALSE, Replace(cs, updated))

delete_contact(contact_id, user_id, cs) ==
    LET contact == get_contact(contact_id, user_id, cs)
    IN  IF contact = NoContact THEN Outcome(NoContact, FALSE, cs)
        ELSE Outcome(contact, FALSE, Remove(cs, contact))

\* the list comprehension raises as soon as days_to_birthday does
get_upcoming_birthdays(user_id, cs, day) ==
    LET birthdays == {i \in Positions(cs) : cs[i].user_id = user_id}
    IN  IF \E i \in birthdays : ~days_to_birthday(cs[i].birthday, day).ok
        THEN [raised |-> TRUE, list |-> <<>>]
        ELSE [raised |-> FALSE,
              list |-> Rows(cs, {i \in birthdays :
                          days_to_birthday(cs[i].birthday, day).days <= BIRTHDAY_WINDOW})]

----------------------------------------------------------------------------
(* Contact routes: src/routes/contacts.py.  owner is the id of the user   *)
(* that get_current_user resolved.                                         *)

ContactResponse(op, status, detail, owner, id) ==
    [Response(op, status, detail) EXCEPT !.owner = owner, !.id = id]

GetContacts(owner, limit, offset, search) ==
    /\ result' = [ContactResponse("list", HTTP_200_OK, "", owner, 0)
                    EXCEPT !.list = get_contacts(limit, offset, owner, contacts, search)]
    /\ UNCHANGED <<users, contacts, nextContactId, now, today, cache, mailQueue, issued, inflight, loadedAt>>

GetContact(owner, contact_id) ==
    LET contact == get_contact(contact_id, owner, contacts)
    IN  /\ IF contact = NoContact
           THEN result' = ContactResponse("get", HTTP_404_NOT_FOUND, "NOT FOUND", owner, contact_id)
           ELSE result' = [ContactResponse("get", HTTP_200_OK, "", owner, contact_id)
                            EXCEPT !.contact = contact]
        /\ UNCHANGED <<users, contacts, nextContactId, now, today, cache, mailQueue, issued, inflight, loadedAt>>

CreateContact(owner, body) ==
    LET out == create_contact(body, owner, contacts, nextContactId, now)
    IN  /\ nextContactId <= MaxContactId
        /\ contacts' = out.table
        /\ IF out.raised
           THEN \* IntegrityError at commit: rolled back, unhandled
                /\ result' = ContactResponse("create", HTTP_500_INTERNAL_SERVER_ERROR, "IntegrityError", owner, 0)
                /\ UNCHANGED nextContactId
           ELSE /\ nextContactId' = nextContactId + 1
                /\ result' = [ContactResponse("create", HTTP_201_CREATED, "", owner, out.contact.id)
                                EXCEPT !.contact = out.contact]
        /\ UNCHANGED <<users, now, today, cache, mailQueue, issued, inflight, loadedAt>>

UpdateContact(owner, contact_id, payload) ==
    LET out == update_contact(contact_id, payload, owner, contacts, now)
    IN  /\ contacts' = out.table
        /\ IF out.raised
           THEN result' = ContactResponse("update", HTTP_500_INTERNAL_SERVER_ERROR, "IntegrityError", owner, contact_id)
           ELSE IF out.contact = NoContact
           THEN result' = ContactResponse("update", HTTP_404_NOT_FOUND, "NOT FOUND", owner, contact_id)
           ELSE result' = [ContactResponse("update", HTTP_200_OK, "", owner, contact_id)
                            EXCEPT !.contact = out.contact]
        /\ UNCHANGED <<users, nextContactId, now, today, cache, mailQueue, issued, inflight, loadedAt>>

DeleteContact(owner, contact_id) ==
    LET out == delete_contact(contact_id, owner, contacts)
    IN  /\ contacts' = out.table
        /\ IF out.contact = NoContact
           THEN result' = ContactResponse("delete", HTTP_404_NOT_FOUND, "NOT FOUND", owner, contact_id)
           ELSE result' = [ContactResponse("delete", HTTP_204_NO_CONTENT, "", owner, contact_id)
                            EXCEPT !.contact = out.contact]
        /\ UNCHANGED <<users, nextContactId, now, today, cache, mailQueue, issued, inflight, loadedAt>>

GetUpcomingBirthdays(owner) ==
    LET out == get_upcoming_birthdays(owner, contacts, today)
    IN  /\ IF out.raised
           THEN result' = ContactResponse("birthdays", HTTP_500_INTERNAL_SERVER_ERROR, "ValueError", owner, 0)
           ELSE result' = [ContactResponse("birthdays", HTTP_200_OK, "", owner, 0)
                            EXCEPT !.list = out.list]
        /\ UNCHANGED <<users, contacts, nextContactId, now, today, cache, mailQueue, issued, inflight, loadedAt>>

----------------------------------------------------------------------------
(* Specification of the session manager *)

Presentable == issued \cup {Garbage}

Init ==
    /\ users = <<>>
    /\ contacts = <<>>
    /\ nextContactId = 1
    /\ now = 0
    /\ today = [y |-> 2024, m |-> 6, d |-> 16]
    /\ cache = [e \in Emails |-> NoEntry]
    /\ mailQueue = <<>>
    /\ issued = {}
    /\ inflight = {}
    /\ loadedAt = [e \in Emails |-> 0]
    /\ result = NoResult

Next ==
    \/ \E u \in Usernames, e \in Emails, p \in SignupPasswords, s \in Salts : Signup(u, e, p, s)
    \/ \E e \in Emails, p \in Passwords : Login(e, p)
    \/ \E tok \in Presentable : RefreshToken(tok)
    \/ \E tok \in Presentable : ConfirmedEmail(tok)
    \/ \E tok \in Presentable : GetCurrentUser(tok)
    \/ \E ok \in BOOLEAN : SendEmail(ok)
    \/ \E t \in ClockPoints : Tick(t)

Spec == Init /\ [][Next]_vars

----------------------------------------------------------------------------
(* Specification of the contact repository: two registered, confirmed      *)
(* users work on the contacts table.                                       *)

Str(a, b, c, d) == <<a, b, c, d>>

Body(first_name, email, birthday) ==
    [first_name |-> first_name, last_name |-> Str("A", "b", "e", "l"),
     email |-> email, phone_number |-> "555", birthday |-> birthday,
     additional_data |-> ""]

Date(y, m, d) == [y |-> y, m |-> m, d |-> d]

\* bodies of create requests: two of them carry the same email
Bodies ==
    {Body(Str("T", "e", "s", "t"), Str("a", "@", "e", "e"), Date(2000, 6, 19)),
     Body(Str("B", "a", "b", "s"), Str("b", "@", "e", "e"), Date(1990, 1, 2)),
     Body(Str("T", "e", "s", "t"), Str("a", "@", "e", "e"), Date(2000, 2, 29))}

Todays == {Date(2024, 6, 16), Date(2024, 12, 28), Date(2023, 2, 27)}

\* list requests: limit, offset, search (<<>> when absent)
Queries ==
    {[limit |-> 10, offset |-> 0, search |-> <<>>],
     [limit |-> 1, offset |-> 1, search |-> <<>>],
     [limit |-> 10, offset |-> 0, search |-> <<"E", "S">>],
     [limit |-> 1, offset |-> 0, search |-> <<"E", "S">>],
     [limit |-> 1, offset |-> 0, search |-> <<"_", "@">>]}

NoBody ==
    [first_name |-> <<>>, last_name |-> <<>>, email |-> <<>>,
     phone_number |-> "", birthday |-> NoDate, additional_data |-> ""]

\* partial updates: the fields the request sets, null included
Payloads ==
    {[fields |-> {}, values |-> NoBody],
     [fields |-> {"first_name"}, values |-> [NoBody EXCEPT !.first_name = Str("B", "a", "b", "s")]],
     [fields |-> {"email"}, values |-> [NoBody EXCEPT !.email = Str("b", "@", "e", "e")]],
     [fields |-> {"birthday"}, values |-> NoBody]}

ContactClock == {0, 1}

Owners == {1, 2}

ContactIds == 1..MaxContactId

RegisteredUser(id, username, email, password) ==
    [NewUser(username, email, get_password_hash(password, 1), <<>>, 0)
        EXCEPT !.id = id, !.confirmed = TRUE]

InitContacts ==
    /\ users = <<RegisteredUser(1, "ann", "a@x.io", "secret1"),
                 RegisteredUser(2, "bob", "b@x.io", "secret2")>>
    /\ contacts = <<>>
    /\ nextContactId = 1
    /\ now = 0
    /\ today \in Todays
    /\ cache = [e \in Emails |-> NoEntry]
    /\ mailQueue = <<>>
    /\ issued = {}
    /\ inflight = {}
    /\ loadedAt = [e \in Emails |-> 0]
    /\ result = NoResult

NextContacts ==
    \/ \E o \in Owners, q \in Queries : GetContacts(o, q.limit, q.offset, q.search)
    \/ \E o \in Owners, id \in ContactIds : GetContact(o, id)
    \/ \E o \in Owners, b \in Bodies : CreateContact(o, b)
    \/ \E o \in Owners, id \in ContactIds, p \in Payloads : UpdateContact(o, id, p)
    \/ \E o \in Owners, id \in ContactIds : DeleteContact(o, id)
    \/ \E o \in Owners : GetUpcomingBirthdays(o)
    \/ \E t \in ContactClock : Tick(t)

SpecContacts == InitContacts /\ [][NextContacts]_vars

----------------------------------------------------------------------------
(* Specification of the single-contact operations of two owners: create,   *)
(* get, update and delete, on one calendar day.                            *)

InitContactCrud ==
    /\ InitContacts
    /\ today = Date(2024, 6, 16)

NextContactCrud ==
    \/ \E o \in Owners, id \in ContactIds : GetContact(o, id)
    \/ \E o \in Owners, b \in Bodies : CreateContact(o, b)
    \/ \E o \in Owners, id \in ContactIds, p \in Payloads : UpdateContact(o, id, p)
    \/ \E o \in Owners, id \in ContactIds : DeleteContact(o, id)
    \/ \E t \in ContactClock : Tick(t)

SpecContactCrud == InitContactCrud /\ [][NextContactCrud]_vars

----------------------------------------------------------------------------
(* Specification of the birthday scan: contacts are created and deleted    *)
(* and the scan runs on a day that puts the stored birthdays today, 3, 7   *)
(* and 8 days ahead, a day behind, or across the turn of the year, in a    *)
(* leap year before and after 29 February and in a year without one.       *)

BirthdayTodays ==
    {Date(2024, 6, 19), Date(2024, 6, 16), Date(2024, 6, 12), Date(2024, 6, 11),
     Date(2024, 6, 20), Date(2024, 12, 28), Date(2023, 2, 27), Date(2024, 2, 22)}

InitBirthdays ==
    /\ users = <<RegisteredUser(1, "ann", "a@x.io", "secret1"),
                 RegisteredUser(2, "bob", "b@x.io", "secret2")>>
    /\ contacts = <<>>
    /\ nextContactId = 1
    /\ now = 0
    /\ today \in BirthdayTodays
    /\ cache = [e \in Emails |-> NoEntry]
    /\ mailQueue = <<>>
    /\ issued = {}
    /\ inflight = {}
    /\ loadedAt = [e \in Emails |-> 0]
    /\ result = NoResult

NextBirthdays ==
    \/ \E o \in Owners, b \in Bodies : CreateContact(o, b)
    \/ \E o \in Owners, id \in ContactIds : DeleteContact(o, id)
    \/ \E o \in Owners : GetUpcomingBirthdays(o)

SpecBirthdays == InitBirthdays /\ [][NextBirthdays]_vars

----------------------------------------------------------------------------
(* Specification of the token codec: tokens of the three kinds are issued  *)
(* for an email, with or without a lifetime override, and decoded under    *)
(* their own scope as the clock advances.                                  *)

\* lifetimes in seconds handed to expires_delta; {} is "no override"
Overrides == {{}, {0}, {5}}

TokenClock == {0, 5, 6, 900, 901, 86400, 86401, 604800, 604801}

IssueToken(scope, email, expires_delta) ==
    LET token ==
            CASE scope = "access_token" -> create_access_token(email, now, expires_delta)
              [] scope = "refresh_token" -> create_refresh_token(email, now, expires_delta)
              [] OTHER -> create_email_token(email, now)
    IN  /\ scope = "none" => expires_delta = {}
        /\ Cardinality(issued \cup {token}) <= MaxTokens
        /\ issued' = issued \cup {token}
        /\ result' = [Response("issue", HTTP_200_OK, "")
                        EXCEPT !.email = email, !.presented = token,
                               !.expires_delta = expires_delta]
        /\ UNCHANGED <<users, contacts, nextContactId, now, today, cache, mailQueue, inflight, loadedAt>>

\* decode a token under the scope it was issued for
DecodeToken(token) ==
    LET dec ==
            CASE token.scope = "access_token" -> decode_access_token(token, now)
              [] token.scope = "refresh_token" -> decode_refresh_token(token, now)
              [] OTHER -> get_email_from_token(token, now)
    IN  /\ result' = [Response("decode", dec.status, dec.detail)
                        EXCEPT !.email = dec.email, !.presented = token]
        /\ UNCHANGED <<users, contacts, nextContactId, now, today, cache, mailQueue, issued, inflight, loadedAt>>

NextToken ==
    \/ \E k \in {"access_token", "refresh_token", "none"}, e \in Emails, d \in Overrides :
            IssueToken(k, e, d)
    \/ \E tok \in issued : DecodeToken(tok)
    \/ \E t \in TokenClock : Tick(t)

SpecToken == Init /\ [][NextToken]_vars

----------------------------------------------------------------------------
(* Specification of concurrent signups: up to MaxInflight requests are     *)
(* between their pre-check and their insert at the same time.              *)

NextSignupRace ==
    \/ \E rid \in RequestIds, u \in Usernames, e \in Emails, p \in SignupPasswords, s \in Salts :
            SignupPreCheck(rid, u, e, p, s)
    \/ \E req \in inflight : SignupInsert(req)
    \/ \E ok \in BOOLEAN : SendEmail(ok)
    \/ \E t \in ClockPoints : Tick(t)

SpecSignupRace == Init /\ [][NextSignupRace]_vars

----------------------------------------------------------------------------
(* Specification of email confirmation against any token signed with the   *)
(* service's key: the subject of a token may or may not be registered.     *)

NextConfirm ==
    \/ \E u \in Usernames, e \in Emails, p \in SignupPasswords, s \in Salts : Signup(u, e, p, s)
    \/ \E k \in {"access_token", "refresh_token", "none"}, e \in Emails :
            IssueToken(k, e, {})
    \/ \E tok \in Presentable : ConfirmedEmail(tok)
    \/ \E ok \in BOOLEAN : SendEmail(ok)
    \/ \E t \in ClockPoints : Tick(t)

SpecConfirm == Init /\ [][NextConfirm]_vars

----------------------------------------------------------------------------
(* Specification of the identity cache: one registered user, access tokens *)
(* for a registered and for an unregistered email, and a clock that passes *)
(* the time to live of a cache entry.                                      *)

CacheClock == {0, 1, 299, 300, 301}

Versions == {1, 2}

Uploads == {NoUpload} \cup {[ok |-> TRUE, version |-> v] : v \in Versions}

InitCache ==
    /\ users = <<RegisteredUser(1, "ann", "a@x.io", "secret1")>>
    /\ contacts = <<>>
    /\ nextContactId = 1
    /\ now = 0
    /\ today = [y |-> 2024, m |-> 6, d |-> 16]
    /\ cache = [e \in Emails |-> NoEntry]
    /\ mailQueue = <<>>
    /\ issued = {}
    /\ inflight = {}
    /\ loadedAt = [e \in Emails |-> 0]
    /\ result = NoResult

NextCache ==
    \/ \E e \in Emails : IssueToken("access_token", e, {})
    \/ \E tok \in Presentable : GetCurrentUser(tok)
    \/ \E tok \in Presentable, up \in Uploads : UpdateAvatar(tok, up)
    \/ \E t \in CacheClock : Tick(t)

SpecCache == InitCache /\ [][NextCache]_vars

----------------------------------------------------------------------------
(* Specification of concurrent refreshes: a confirmed user logs in, and up *)
(* to MaxInflight refresh requests are between their read and their write. *)

NextRefreshRace ==
    \/ \E e \in Emails, p \in Passwords : Login(e, p)
    \/ \E rid \in RequestIds, tok \in Presentable : RefreshRead(rid, tok)
    \/ \E req \in inflight : RefreshWrite(req)
    \/ \E t \in ClockPoints : Tick(t)

SpecRefreshRace == InitCache /\ [][NextRefreshRace]_vars

----------------------------------------------------------------------------
(* Properties of the contact repository (SpecContacts) *)

OwnedByOther(cs, contact_id, owner) ==
    \E i \in Positions(cs) : cs[i].id = contact_id /\ cs[i].user_id # owner

\* C1: get, list and upcoming birthdays return only contacts whose owner id
\* is the caller's id; get of a contact owned by a different user returns
\* absent (404), not the contact.
C1_OwnerScopedReads ==
    /\ (result.op = "get" /\ result.status = HTTP_200_OK) =>
            /\ result.contact.user_id = result.owner
            /\ result.contact.id = result.id
    /\ (result.op = "get" /\ OwnedByOther(contacts, result.id, result.owner)) =>
            /\ result.status = HTTP_404_NOT_FOUND
            /\ result.contact = NoContact
    /\ result.op \in {"list", "birthdays"} =>
            \A i \in 1..Len(result.list) : result.list[i].user_id = result.owner

\* a get by user A of an id that user B holds, while A lists contacts of its own
C1_Witness ==
    /\ result.op = "get"
    /\ result.status = HTTP_404_NOT_FOUND
    /\ OwnedByOther(contacts, result.id, result.owner)
    /\ \E i \in Positions(contacts) : contacts[i].user_id = result.owner

\* C2: update and delete by a user who does not own the contact return
\* "not found" and leave every stored contact, and its existence, unchanged.
C2_ForeignWriteIsNoOp ==
    [][\A o \in Owners, id \in ContactIds :
        (/\ OwnedByOther(contacts, id, o)
         /\ \/ \E p \in Payloads : UpdateContact(o, id, p)
            \/ DeleteContact(o, id))
        => /\ result'.status = HTTP_404_NOT_FOUND
           /\ result'.contact = NoContact
           /\ contacts' = contacts]_vars

\* an update that sets a field was refused on another user's contact
C2_Witness ==
    /\ result.op = "update"
    /\ result.status = HTTP_404_NOT_FOUND
    /\ OwnedByOther(contacts, result.id, result.owner)

----------------------------------------------------------------------------
(* Properties of the session manager (Spec) *)

\* C3: login fails with Unauthorized and a distinct reason in each of three
\* cases, checked in this order: no user with that email, user not
\* confirmed, password wrong; an unconfirmed account gets the unconfirmed
\* reason even with the correct password, and a failed login changes no
\* user state.
C3_LoginFailures ==
    [][\A e \in Emails, p \in Passwords :
        Login(e, p) =>
            LET user == get_user_by_email(e, users)
                Fails(detail) ==
                    /\ result'.status = HTTP_401_UNAUTHORIZED
                    /\ result'.detail = detail
                    /\ users' = users
                    /\ issued' = issued
            IN  /\ user = NoUser => Fails(INVALID_EMAIL)
                /\ (user # NoUser /\ ~user.confirmed) => Fails(EMAIL_NOT_CONFIRMED)
                /\ (user # NoUser /\ user.confirmed /\ ~verify_password(p, user.password))
                        => Fails(INVALID_PASSWORD)
                /\ Cardinality({INVALID_EMAIL, EMAIL_NOT_CONFIRMED, INVALID_PASSWORD}) = 3
                /\ result'.status # HTTP_200_OK => users' = users]_vars

\* an unconfirmed account was refused although the password was right
C3_Witness ==
    /\ result.op = "login"
    /\ result.detail = EMAIL_NOT_CONFIRMED
    /\ verify_password(result.password, get_user_by_email(result.email, users).password)

\* C4: after a successful refresh presenting t and returning t', the stored
\* refresh token is t' and t is no longer the active token.
C4_RotationInvalidatesPresented ==
    (result.op = "refresh" /\ result.status = HTTP_200_OK) =>
        /\ get_user_by_email(result.email, users).refresh_token = result.refresh_token
        /\ get_user_by_email(result.email, users).refresh_token # result.presented

\* C5: refresh presenting a validly signed, unexpired refresh-scoped token
\* that differs from the stored token of the user it names clears that
\* user's stored token and fails with Unauthorized, issuing nothing.
C5_MismatchClearsStored ==
    [][\A tok \in Presentable :
        (/\ RefreshToken(tok)
         /\ decode_refresh_token(tok, now).ok
         /\ get_user_by_email(tok.sub, users) # NoUser
         /\ get_user_by_email(tok.sub, users).refresh_token # tok)
        => /\ get_user_by_email(tok.sub, users').refresh_token = NoToken
           /\ result'.status = HTTP_401_UNAUTHORIZED
           /\ result'.access_token = NoToken
           /\ result'.refresh_token = NoToken
           /\ issued' = issued]_vars

\* a superseded refresh token was presented and the session was revoked
C5_Witness ==
    /\ result.op = "refresh"
    /\ result.status = HTTP_401_UNAUTHORIZED
    /\ result.detail = INVALID_REFRESH_TOKEN
    /\ result.presented.scope = "refresh_token"
    /\ \E tok \in issued :
            tok.scope = "refresh_token" /\ tok.sub = result.email /\ tok # result.presented
    /\ get_user_by_email(result.email, users).refresh_token = NoToken

\* C6: after every successful login the stored refresh token is the one the
\* login returned, whatever was stored before.
C6_LoginStoresReturnedToken ==
    (result.op = "login" /\ result.status = HTTP_200_OK) =>
        /\ result.refresh_token # NoToken
        /\ result.refresh_token.scope = "refresh_token"
        /\ get_user_by_email(result.email, users).refresh_token = result.refresh_token

\* a login of a user who had been given an earlier refresh token
C6_Witness ==
    /\ result.op = "login"
    /\ result.status = HTTP_200_OK
    /\ \E tok \in issued :
            /\ tok.scope = "refresh_token"
            /\ tok.sub = result.email
            /\ tok # result.refresh_token

\* C7: a token whose scope is not the expected one is always rejected with
\* Unauthorized: refresh rejects access and email-confirmation tokens,
\* get_current_user rejects refresh and email-confirmation tokens, and the
\* failure is never anything other than Unauthorized.
C7_WrongScopeUnauthorized ==
    /\ (/\ result.op = "refresh"
        /\ result.presented.sig = "ok"
        /\ result.presented.scope # "refresh_token")
            => result.status = HTTP_401_UNAUTHORIZED
    /\ (/\ result.op = "get_current_user"
        /\ result.presented.sig = "ok"
        /\ result.presented.scope # "access_token")
            => result.status = HTTP_401_UNAUTHORIZED

\* C9: signup with an email that is already registered fails with Conflict,
\* creates no user, schedules no confirmation email and leaves the existing
\* user unchanged.
C9_DuplicateEmailConflict ==
    [][\A u \in Usernames, e \in Emails, p \in Passwords, s \in Salts :
        (Signup(u, e, p, s) /\ get_user_by_email(e, users) # NoUser)
        => /\ result'.status = HTTP_409_CONFLICT
           /\ result'.detail = ACCOUNT_EXIST
           /\ users' = users
           /\ mailQueue' = mailQueue]_vars

\* a signup was refused for an email that a stored user holds
C9_Witness ==
    /\ result.op = "signup"
    /\ result.status = HTTP_409_CONFLICT
    /\ get_user_by_email(result.email, users) # NoUser

UsernameTaken(username, us) == \E i \in UserIds(us) : us[i].username = username

\* what a signup that persists its user does, and what holds of logins and
\* of the confirmed flag around it
SignupPersists(u, e, p, s) ==
    /\ Len(users') = Len(users) + 1
    /\ SubSeq(users', 1, Len(users)) = users
    /\ LET new_user == users'[Len(users')]
       IN  /\ new_user.email = e
           /\ new_user.username = u
           /\ new_user.password.scheme = "bcrypt"
           /\ verify_password(p, new_user.password)
           /\ ~new_user.confirmed
           /\ new_user.refresh_token = NoToken
           /\ result'.status = HTTP_201_CREATED
           /\ result'.user = new_user

UnconfirmedCannotLogin ==
    /\ \A e \in Emails, p \in Passwords :
        (Login(e, p) /\ ~get_user_by_email(e, users).confirmed)
            => (result'.status = HTTP_401_UNAUTHORIZED /\ users' = users)
    /\ \A i \in UserIds(users) :
        (~users[i].confirmed /\ users'[i].confirmed)
            => \E tok \in Presentable :
                /\ ConfirmedEmail(tok)
                /\ tok.sub = users[i].email
                /\ result'.detail = "Email confirmed"

\* C10 as stated: signup with an email not yet registered, for any username
\* and password, persists exactly one new user with that email, the hashed
\* password, confirmed = false and no refresh token, and returns it; until
\* confirmEmail succeeds for it every login for that email fails.
C10_AnyUsernamePersists ==
    [][/\ \A u \in Usernames, e \in Emails, p \in Passwords, s \in Salts :
            (Signup(u, e, p, s) /\ get_user_by_email(e, users) = NoUser)
                => SignupPersists(u, e, p, s)
       /\ UnconfirmedCannotLogin]_vars

\* C10 amended: the same, for a username that no stored user has.
C10_FreeUsernamePersists ==
    [][/\ \A u \in Usernames, e \in Emails, p \in Passwords, s \in Salts :
            (/\ Signup(u, e, p, s)
             /\ get_user_by_email(e, users) = NoUser
             /\ ~UsernameTaken(u, users))
                => SignupPersists(u, e, p, s)
       /\ UnconfirmedCannotLogin]_vars

\* a second user has just been registered, next to an existing one
C10_Witness ==
    /\ result.op = "signup"
    /\ result.status = HTTP_201_CREATED
    /\ Len(users) = 2
    /\ result.user = users[2]
    /\ ~users[2].confirmed

----------------------------------------------------------------------------
(* Properties of the token codec (SpecToken) *)

DefaultLifetime(scope) ==
    CASE scope = "access_token" -> ACCESS_TOKEN_MINUTES * 60
      [] scope = "refresh_token" -> REFRESH_TOKEN_DAYS * 86400
      [] OTHER -> EMAIL_TOKEN_DAYS * 86400

\* C8: a token issued for email e at time t decodes to e under its own scope
\* at every time before its expiry and is rejected at every time after it;
\* the expiry is t + 15 minutes (access), t + 7 days (refresh), t + 1 day
\* (email confirmation), and t + s seconds under an explicit override s.
C8_TokenLifetime ==
    [][/\ \A k \in {"access_token", "refresh_token", "none"}, e \in Emails, d \in Overrides :
            IssueToken(k, e, d) =>
                /\ result'.presented.sub = e
                /\ result'.presented.scope = k
                /\ result'.presented.exp =
                        now + (IF d = {} THEN DefaultLifetime(k) ELSE OptValue(d))
       /\ \A tok \in issued :
            DecodeToken(tok) =>
                /\ now < tok.exp =>
                        (result'.status = HTTP_200_OK /\ result'.email = tok.sub)
                /\ now > tok.exp => result'.status # HTTP_200_OK]_vars

----------------------------------------------------------------------------
(* Properties of concurrent signups (SpecSignupRace) *)

EmailsStoredOnce(us) ==
    \A i, j \in UserIds(us) : us[i].email = us[j].email => i = j

\* C11: when two signups with the same email have both passed the pre-check,
\* at most one user with that email is ever stored, and the signup whose
\* insert comes second is answered with Conflict (409)
C11_RaceLoserConflict ==
    [][\A req \in inflight :
        SignupInsert(req)
        => /\ EmailsStoredOnce(users')
           /\ get_user_by_email(req.email, users) # NoUser
                => /\ users' = users
                   /\ result'.status = HTTP_409_CONFLICT]_vars

\* the store-level half of C11 alone: the unique constraint holds
C11_AtMostOnePerEmail == EmailsStoredOnce(users)

\* what the second insert is answered with
C11_RaceLoserServerError ==
    [][\A req \in inflight :
        (SignupInsert(req) /\ get_user_by_email(req.email, users) # NoUser)
        => /\ users' = users
           /\ result'.status = HTTP_500_INTERNAL_SERVER_ERROR]_vars

----------------------------------------------------------------------------
(* Properties of email confirmation *)

Registered(email, us) == \E i \in UserIds(us) : us[i].email = email

ValidToken(token, t) == token.sig = "ok" /\ token.exp >= t

\* C12: the confirmed flag only ever goes from false to true: confirming an
\* unconfirmed user sets it, no step clears it, and confirming an already
\* confirmed user answers "already confirmed" and changes no field of any
\* user, updated_at included
C12_ConfirmedMonotone ==
    [][/\ \A i \in UserIds(users) :
            users[i].confirmed => (i \in UserIds(users') /\ users'[i].confirmed)
       /\ \A tok \in Presentable :
            (ConfirmedEmail(tok) /\ ValidToken(tok, now) /\ Registered(tok.sub, users))
            => IF get_user_by_email(tok.sub, users).confirmed
               THEN /\ users' = users
                    /\ result'.status = HTTP_200_OK
                    /\ result'.detail = "Your email is already confirmed"
               ELSE /\ get_user_by_email(tok.sub, users').confirmed
                    /\ result'.status = HTTP_200_OK
                    /\ result'.detail = "Email confirmed"]_vars

\* a second confirmation, later than the first, has been answered
C12_Witness ==
    /\ result.op = "confirmed_email"
    /\ result.detail = "Your email is already confirmed"
    /\ Registered(result.email, users)
    /\ get_user_by_email(result.email, users).confirmed
    /\ get_user_by_email(result.email, users).updated_at < now

----------------------------------------------------------------------------
(* Properties of the identity cache (SpecCache) *)

CacheHolds(c, key, t) == c[key].user # NoUser /\ t < c[key].expires

\* C14: with a valid access token for email e, the resolution of the current
\* user returns the cached snapshot when the cache holds e, whatever the
\* store holds; on a miss it fails with 401 when no user has email e and
\* writes nothing to the cache, and otherwise caches the stored user under
\* e for 300 seconds and returns it
C14_ReadThrough ==
    [][\A tok \in Presentable :
        (GetCurrentUser(tok) /\ ValidToken(tok, now) /\ tok.scope = "access_token")
        => IF CacheHolds(cache, tok.sub, now)
           THEN /\ result'.status = HTTP_200_OK
                /\ result'.user = cache[tok.sub].user
                /\ cache' = cache
           ELSE IF ~Registered(tok.sub, users)
           THEN /\ result'.status = HTTP_401_UNAUTHORIZED
                /\ cache' = cache
           ELSE /\ result'.status = HTTP_200_OK
                /\ result'.user = get_user_by_email(tok.sub, users)
                /\ cache'[tok.sub] = [user |-> result'.user, expires |-> now + 300]
                /\ \A k \in Emails \ {tok.sub} : cache'[k] = cache[k]]_vars

\* a snapshot that differs from the stored row has been served from the cache
C14_Witness ==
    /\ result.op = "get_current_user"
    /\ result.status = HTTP_200_OK
    /\ result.from_cache
    /\ result.user # get_user_by_email(result.email, users)

\* C15: once an avatar update has completed, the cache entry for the user's
\* email holds a snapshot with the newly stored avatar, whether the caller
\* was resolved from the cache or from the store
C15_AvatarUpdateRefreshesCache ==
    [][\A tok \in Presentable, up \in Uploads :
        (UpdateAvatar(tok, up) /\ result'.status = HTTP_200_OK)
        => /\ get_user_by_email(tok.sub, users').avatar = CloudinaryUrl(tok.sub, up.version)
           /\ CacheHolds(cache', tok.sub, now)
           /\ cache'[tok.sub].user.avatar = CloudinaryUrl(tok.sub, up.version)]_vars

\* C15 for a caller resolved from the store only
C15_FromStoreRefreshesCache ==
    [][\A tok \in Presentable, up \in Uploads :
        (UpdateAvatar(tok, up) /\ result'.status = HTTP_200_OK /\ ~result'.from_cache)
        => /\ CacheHolds(cache', tok.sub, now)
           /\ cache'[tok.sub].user = get_user_by_email(tok.sub, users')
           /\ cache'[tok.sub].user.avatar = CloudinaryUrl(tok.sub, up.version)]_vars

----------------------------------------------------------------------------
(* Properties of the contact repository, continued (SpecContacts) *)

\* sub occurs in str as a run of consecutive characters
Contains(str, sub) ==
    \E i \in 0..(Len(str) - Len(sub)) : SubSeq(str, i + 1, i + Len(sub)) = sub

ContainsCI(c, search) ==
    \/ Contains(LowerStr(c.first_name), LowerStr(search))
    \/ Contains(LowerStr(c.last_name), LowerStr(search))
    \/ Contains(LowerStr(c.email), LowerStr(search))

\* the owner's contacts, in table order, that contain search when it is given
OwnersMatching(cs, owner, search) ==
    Rows(cs, {i \in Positions(cs) :
                /\ cs[i].user_id = owner
                /\ (search # <<>> => ContainsCI(cs[i], search))})

ListedAsClaimed(o, q) ==
    GetContacts(o, q.limit, q.offset, q.search)
    => /\ Len(result'.list) <= q.limit
       /\ \A i \in 1..Len(result'.list) :
            /\ result'.list[i].user_id = o
            /\ (q.search # <<>> => ContainsCI(result'.list[i], q.search))
       /\ result'.list = Page(OwnersMatching(contacts, o, q.search), q.limit, q.offset)

\* C16: list returns at most limit contacts, all of the owner; when search is
\* given every returned contact contains it, case-insensitively, in its
\* first name, last name or email, and offset/limit cut the owner's matching
\* contacts (filter first, then pagination); without search it returns the
\* owner's contacts from position offset, up to limit
C16_ListFiltersThenPages ==
    [][\A o \in Owners, q \in Queries : ListedAsClaimed(o, q)]_vars

Wildcards == {"%", "_"}

\* C16 for the searches that hold no LIKE wildcard
C16_ListWithoutWildcards ==
    [][\A o \in Owners, q \in Queries :
        (\A i \in 1..Len(q.search) : q.search[i] \notin Wildcards)
        => ListedAsClaimed(o, q)]_vars

RequiredFields == {"first_name", "last_name", "email", "phone_number", "birthday"}

\* the write the payload asks for changes a value and is one the table
\* takes: no required column set to null, no email of another contact
ChangesAndFits(c, payload, cs) ==
    /\ \E f \in payload.fields : payload.values[f] # c[f]
    /\ \A f \in payload.fields \cap RequiredFields : payload.values[f] # NoBody[f]
    /\ "email" \in payload.fields
        => \A i \in Positions(cs) : cs[i].id # c.id => cs[i].email # payload.values.email

\* the effect C17 describes, for the update of contact c of owner o
UpdatedAsClaimed(o, id, payload) ==
    LET c == get_contact(id, o, contacts)
        r == result'.contact
    IN  /\ result'.status = HTTP_200_OK
        /\ \A f \in payload.fields : r[f] = payload.values[f]
        /\ \A f \in (DOMAIN c) \ (payload.fields \cup {"updated_at"}) : r[f] = c[f]
        /\ r.updated_at = now
        /\ Len(contacts') = Len(contacts)
        /\ \A i \in Positions(contacts) :
            contacts'[i] = IF contacts[i].id = id THEN r ELSE contacts[i]

\* C17: update on a contact the owner owns sets exactly the fields of the
\* payload, leaves the other fields, the id, the owner and created_at as
\* they were, refreshes updated_at, returns the updated contact and changes
\* no other contact
C17_UpdateMergesPayload ==
    [][\A o \in Owners, id \in ContactIds, p \in Payloads :
        (/\ result'.op = "update" /\ result'.owner = o /\ result'.id = id
         /\ UpdateContact(o, id, p)
         /\ get_contact(id, o, contacts) # NoContact)
        => UpdatedAsClaimed(o, id, p)]_vars

\* C17, for a payload that changes at least one value and that the table
\* accepts
C17_AcceptedUpdateMergesPayload ==
    [][\A o \in Owners, id \in ContactIds, p \in Payloads :
        (/\ result'.op = "update" /\ result'.owner = o /\ result'.id = id
         /\ UpdateContact(o, id, p)
         /\ get_contact(id, o, contacts) # NoContact
         /\ ChangesAndFits(get_contact(id, o, contacts), p, contacts))
        => UpdatedAsClaimed(o, id, p)]_vars

\* a partial update of one of two stored contacts has been answered, later
\* than the contact was created
C17_Witness ==
    /\ result.op = "update"
    /\ result.status = HTTP_200_OK
    /\ Len(contacts) >= 2
    /\ result.contact.updated_at > result.contact.created_at
    /\ \E i \in Positions(contacts) : contacts[i] = result.contact

\* cs without the row of id, the other rows as they were and in their order
WithoutContact(cs, id) == Rows(cs, {i \in Positions(cs) : cs[i].id # id})

\* C18: delete on a contact the owner owns removes exactly that contact and
\* returns its last-known values; afterwards get returns absent, a second
\* delete returns "not found", and the other contacts are unchanged
C18_DeleteRemovesExactlyOne ==
    [][\A o \in Owners, id \in ContactIds :
        (/\ result'.op = "delete" /\ result'.owner = o /\ result'.id = id
         /\ DeleteContact(o, id)
         /\ get_contact(id, o, contacts) # NoContact)
        => /\ result'.contact = get_contact(id, o, contacts)
           /\ contacts' = WithoutContact(contacts, id)
           /\ Len(contacts') = Len(contacts) - 1
           /\ get_contact(id, o, contacts') = NoContact
           /\ delete_contact(id, o, contacts') = Outcome(NoContact, FALSE, contacts')
           /\ nextContactId' > id]_vars

\* one of two stored contacts has been deleted
C18_Witness ==
    /\ result.op = "delete"
    /\ result.status = HTTP_204_NO_CONTENT
    /\ result.contact # NoContact
    /\ Len(contacts) >= 1
    /\ \A i \in Positions(contacts) : contacts[i].id # result.id

\* the effect C19 describes, for a create by owner o with the given body
CreatedAsClaimed(o, body) ==
    LET r == result'.contact
    IN  /\ result'.status = HTTP_201_CREATED
        /\ r.user_id = o
        /\ \A f \in DOMAIN body : r[f] = body[f]
        /\ \A i \in Positions(contacts) : contacts[i].id # r.id
        /\ contacts' = Append(contacts, r)
        /\ get_contact(r.id, o, contacts') = r

\* C19: create stores one new contact with the owner's id and the given
\* fields and returns it with a generated id; get(owner, id) then returns
\* it, and no existing contact is changed
C19_CreateStoresContact ==
    [][\A o \in Owners, b \in Bodies :
        (result'.op = "create" /\ result'.owner = o /\ CreateContact(o, b))
        => CreatedAsClaimed(o, b)]_vars

\* C19, for an email that no stored contact of any owner holds
C19_CreateWithFreeEmailStoresContact ==
    [][\A o \in Owners, b \in Bodies :
        (/\ result'.op = "create" /\ result'.owner = o
         /\ CreateContact(o, b)
         /\ \A i \in Positions(contacts) : contacts[i].email # b.email)
        => CreatedAsClaimed(o, b)]_vars

\* a second contact has been created
C19_Witness ==
    /\ result.op = "create"
    /\ result.status = HTTP_201_CREATED
    /\ Len(contacts) >= 2
    /\ contacts[Len(contacts)] = result.contact
    /\ result.contact.user_id = result.owner

----------------------------------------------------------------------------
(* Properties of the birthday scan (SpecBirthdays) *)

\* the first date on or after day that has the birthday's month and day
NextOccurrence(birthday, day) ==
    LET years == {y \in day.y..(day.y + 8) :
                    /\ ValidDate(y, birthday.m, birthday.d)
                    /\ toordinal(Date(y, birthday.m, birthday.d)) >= toordinal(day)}
        first == CHOOSE y \in years : \A z \in years : y <= z
    IN  Date(first, birthday.m, birthday.d)

DaysUntil(birthday, day) == toordinal(NextOccurrence(birthday, day)) - toordinal(day)

ScanAsClaimed(o) ==
    /\ result'.status = HTTP_200_OK
    /\ result'.list = Rows(contacts, {i \in Positions(contacts) :
                            /\ contacts[i].user_id = o
                            /\ DaysUntil(contacts[i].birthday, today) <= 7})

\* the cases C20 names, as the scan counts them
NamedDayCounts ==
    /\ days_to_birthday(Date(2000, 6, 19), Date(2024, 6, 19)) = DayCount(0)
    /\ days_to_birthday(Date(2000, 6, 19), Date(2024, 6, 12)) = DayCount(7)
    /\ days_to_birthday(Date(2000, 6, 19), Date(2024, 6, 11)) = DayCount(8)
    /\ days_to_birthday(Date(1990, 1, 2), Date(2024, 12, 28)) = DayCount(5)

\* C20: upcomingBirthdays returns exactly the owner's contacts whose next
\* birthday, this year's if it is today or later and next year's otherwise,
\* is at most 7 days away: 0 and 7 days are in, 8 days are out, and 01-02
\* seen on 12-28 is 5 days away and in
C20_BirthdayWindow ==
    [][\A o \in Owners :
        (result'.op = "birthdays" /\ result'.owner = o /\ GetUpcomingBirthdays(o))
        => (ScanAsClaimed(o) /\ NamedDayCounts)]_vars

\* C20 for an owner none of whose contacts was born on 29 February
C20_BirthdayWindowWithoutLeapDay ==
    [][\A o \in Owners :
        (/\ result'.op = "birthdays" /\ result'.owner = o
         /\ GetUpcomingBirthdays(o)
         /\ \A i \in Positions(contacts) :
                contacts[i].user_id = o
                => ~(contacts[i].birthday.m = 2 /\ contacts[i].birthday.d = 29))
        => (ScanAsClaimed(o) /\ NamedDayCounts)]_vars

----------------------------------------------------------------------------
(* Properties of contacts without a birthday (SpecContacts) *)

NullBirthday == [fields |-> {"birthday"}, values |-> NoBody]

\* C21: a contact with no stored birthday, which an update with birthday
\* set to null produces, is left out of upcomingBirthdays, and the scan
\* still returns the owner's other contacts in the window
C21_NullBirthdayExcluded ==
    [][\A o \in Owners, id \in ContactIds :
        (/\ result'.op = "update" /\ result'.owner = o /\ result'.id = id
         /\ UpdateContact(o, id, NullBirthday)
         /\ get_contact(id, o, contacts) # NoContact)
        => LET scan == get_upcoming_birthdays(o, contacts', today)
           IN  /\ result'.status = HTTP_200_OK
               /\ get_contact(id, o, contacts').birthday = NoDate
               /\ ~scan.raised
               /\ scan.list = Rows(contacts', {i \in Positions(contacts') :
                                /\ contacts'[i].user_id = o
                                /\ contacts'[i].id # id
                                /\ days_to_birthday(contacts'[i].birthday, today).ok
                                /\ days_to_birthday(contacts'[i].birthday, today).days <= 7})]_vars

\* what the update with birthday set to null does: the commit is refused,
\* the table is as it was, and no stored contact is without a birthday
C21_NullBirthdayRejected ==
    [][\A o \in Owners, id \in ContactIds :
        (/\ result'.op = "update" /\ result'.owner = o /\ result'.id = id
         /\ UpdateContact(o, id, NullBirthday)
         /\ get_contact(id, o, contacts) # NoContact)
        => /\ result'.status = HTTP_500_INTERNAL_SERVER_ERROR
           /\ contacts' = contacts
           /\ \A i \in Positions(contacts') : contacts'[i].birthday # NoDate]_vars

\* were a row without a birthday stored, the scan of its owner would raise
C21_NullBirthdayWouldRaise ==
    \A o \in Owners, b \in Bodies, d \in Todays :
        get_upcoming_birthdays(o, <<NewContact([b EXCEPT !.birthday = NoDate], o, 1, 0)>>, d).raised

----------------------------------------------------------------------------
(* Properties of the confirmation mail (Spec) *)

\* C22: the confirmation email that signup schedules is dispatched only
\* after the signup has answered, and the answer and the stored user are the
\* same whether the dispatch succeeds or fails
C22_DispatchAfterResponse ==
    [][/\ \A u \in Usernames, e \in Emails, p \in Passwords, s \in Salts :
            (result'.op = "signup" /\ Signup(u, e, p, s))
            => /\ issued' = issued
               /\ (mailQueue' # mailQueue
                    => /\ result'.status = HTTP_201_CREATED
                       /\ mailQueue' = Append(mailQueue, [email |-> e, username |-> u])
                       /\ get_user_by_email(e, users') = result'.user)
       /\ \A ok \in BOOLEAN :
            SendEmail(ok)
            => /\ Registered(Head(mailQueue).email, users)
               /\ users' = users
               /\ result' = result]_vars

\* a signup has been answered and the dispatch of its email has failed
C22_Witness ==
    /\ result.op = "signup"
    /\ result.status = HTTP_201_CREATED
    /\ mailQueue = <<>>
    /\ get_user_by_email(result.email, users) = result.user
    /\ \A tok \in issued : tok.sub # result.email

----------------------------------------------------------------------------
(* Properties of the age of cached snapshots (SpecCache) *)

\* C23: a snapshot served from the identity cache was read from the store
\* no more than 300 seconds before: no entry is served later than 300
\* seconds after the store read that produced its content
C23_SnapshotAtMostTtlOld ==
    [][\A tok \in Presentable :
        (/\ result'.op = "get_current_user"
         /\ GetCurrentUser(tok)
         /\ result'.status = HTTP_200_OK
         /\ result'.from_cache)
        => now <= loadedAt[tok.sub] + 300]_vars

\* the same bound for the entries that no avatar update has rewritten: an
\* entry written by the read-through expires 300 seconds after its read
C23_ReadThroughEntryExpires ==
    \A e \in Emails :
        (CacheHolds(cache, e, now) /\ cache[e].expires = loadedAt[e] + 300)
        => now < loadedAt[e] + 300

----------------------------------------------------------------------------
(* Properties of concurrent refreshes (SpecRefreshRace) *)

\* the last request answered was a refresh that rotated the token tok
RotatedBefore(tok) ==
    /\ result.op = "refresh"
    /\ result.status = HTTP_200_OK
    /\ result.presented = tok

\* the request that has just read presents tok and will pass the equality check
ReadPasses(tok) ==
    \E req \in inflight' \ inflight :
        req.token = tok /\ req.user.refresh_token = tok

\* after the write of a request that had loaded a stored token, the stored
\* token is empty or the one the writer returned
StoredIsLastWritten(req) ==
    LET stored == get_user_by_email(req.email, users').refresh_token
    IN  req.user.refresh_token # NoToken
        => \/ stored = NoToken
           \/ (result'.status = HTTP_200_OK /\ stored = result'.refresh_token)

\* C24: of two refreshes presenting the same stored token, the one that
\* reads the user after the other's rotation write fails the equality check
\* and is answered 401, so both succeed only when both reads precede both
\* writes; and after every write the stored token is empty or the token
\* returned by the request that wrote last
C24_ReadAfterRotationFails ==
    [][/\ \A rid \in RequestIds, tok \in Presentable :
            (RefreshRead(rid, tok) /\ RotatedBefore(tok)) => ~ReadPasses(tok)
       /\ \A req \in inflight :
            RefreshWrite(req)
            => /\ StoredIsLastWritten(req)
               /\ (req.user.refresh_token # req.token
                    => result'.status = HTTP_401_UNAUTHORIZED)]_vars

\* C24 when the rotation happened in a later second than the one in which
\* the presented token was issued
C24_ReadAfterLaterRotationFails ==
    [][/\ \A rid \in RequestIds, tok \in Presentable :
            (RefreshRead(rid, tok) /\ RotatedBefore(tok) /\ result.refresh_token.iat > tok.iat)
            => ~ReadPasses(tok)
       /\ \A req \in inflight :
            RefreshWrite(req)
            => /\ StoredIsLastWritten(req)
               /\ (req.user.refresh_token # req.token
                    => result'.status = HTTP_401_UNAUTHORIZED)]_vars

----------------------------------------------------------------------------
(* Properties of who holds session tokens (Spec) *)

SessionScopes == {"access_token", "refresh_token"}

\* C25: a user with a stored refresh token is confirmed, and every access or
\* refresh token is issued for a user who is confirmed at that moment
C25_TokensOnlyForConfirmed ==
    [][/\ \A i \in UserIds(users') :
            users'[i].refresh_token # NoToken => users'[i].confirmed
       /\ \A tok \in issued' \ issued :
            tok.scope \in SessionScopes
            => /\ Registered(tok.sub, users)
               /\ get_user_by_email(tok.sub, users).confirmed]_vars

\* one user holds a session while another has signed up and is unconfirmed
C25_Witness ==
    /\ \E i \in UserIds(users) : users[i].refresh_token # NoToken /\ users[i].confirmed
    /\ \E j \in UserIds(users) : ~users[j].confirmed
    /\ \E tok \in issued : tok.scope = "access_token"
    /\ result.op = "login"
    /\ result.detail = EMAIL_NOT_CONFIRMED

----------------------------------------------------------------------------
(* Properties of the day count (SpecBirthdays) *)

DayCountDefined(birthday, day) ==
    /\ days_to_birthday(birthday, day).ok
    /\ days_to_birthday(birthday, day).days \in 0..366

\* C26: for every today and every stored birthday, 29 February seen in a
\* non-leap year included, the day count is defined and lies in 0..366, so
\* upcomingBirthdays returns a result for every set of contacts of an owner
C26_DayCountDefined ==
    [][\A o \in Owners :
        (result'.op = "birthdays" /\ result'.owner = o /\ GetUpcomingBirthdays(o))
        => /\ result'.status = HTTP_200_OK
           /\ \A i \in Positions(contacts) :
                contacts[i].user_id = o => DayCountDefined(contacts[i].birthday, today)]_vars

\* C26 for the birthdays that are not 29 February
C26_DayCountDefinedExceptLeapDay ==
    [][\A o \in Owners :
        (/\ result'.op = "birthdays" /\ result'.owner = o
         /\ GetUpcomingBirthdays(o)
         /\ \A i \in Positions(contacts) :
                contacts[i].user_id = o
                => ~(contacts[i].birthday.m = 2 /\ contacts[i].birthday.d = 29))
        => /\ result'.status = HTTP_200_OK
           /\ \A i \in Positions(contacts) :
                contacts[i].user_id = o => DayCountDefined(contacts[i].birthday, today)]_vars

\* a 29 February birthday has a day count only in a leap year, up to the day
C26_LeapDayCount ==
    \A d \in BirthdayTodays :
        days_to_birthday(Date(2000, 2, 29), d).ok
        <=> (IsLeap(d.y) /\ toordinal(d) <= toordinal(Date(d.y, 2, 29)))

----------------------------------------------------------------------------
(* Isolation of owners: what an operation of an owner answers and does to  *)
(* the owner's contacts, against what it would answer and do if the table  *)
(* held the owner's contacts only.                                         *)

OwnContacts(cs, o) == Rows(cs, {i \in Positions(cs) : cs[i].user_id = o})

HeldByOther(email, o) ==
    \E i \in Positions(contacts) : contacts[i].user_id # o /\ contacts[i].email = email

ListedAlone(o, q) ==
    /\ result'.status = HTTP_200_OK
    /\ result'.list = get_contacts(q.limit, q.offset, o, OwnContacts(contacts, o), q.search)
    /\ OwnContacts(contacts', o) = OwnContacts(contacts, o)

GotAlone(o, id) ==
    LET contact == get_contact(id, o, OwnContacts(contacts, o))
    IN  /\ result'.status = IF contact = NoContact THEN HTTP_404_NOT_FOUND ELSE HTTP_200_OK
        /\ result'.contact = contact
        /\ OwnContacts(contacts', o) = OwnContacts(contacts, o)

CreatedAlone(o, body) ==
    LET out == create_contact(body, o, OwnContacts(contacts, o), nextContactId, now)
    IN  /\ result'.status = IF out.raised THEN HTTP_500_INTERNAL_SERVER_ERROR
                            ELSE HTTP_201_CREATED
        /\ result'.contact = out.contact
        /\ OwnContacts(contacts', o) = out.table

UpdatedAlone(o, id, payload) ==
    LET out == update_contact(id, payload, o, OwnContacts(contacts, o), now)
    IN  /\ result'.status = IF out.raised THEN HTTP_500_INTERNAL_SERVER_ERROR
                            ELSE IF out.contact = NoContact THEN HTTP_404_NOT_FOUND
                            ELSE HTTP_200_OK
        /\ result'.contact = out.contact
        /\ OwnContacts(contacts', o) = out.table

DeletedAlone(o, id) ==
    LET out == delete_contact(id, o, OwnContacts(contacts, o))
    IN  /\ result'.status = IF out.contact = NoContact THEN HTTP_404_NOT_FOUND
                            ELSE HTTP_204_NO_CONTENT
        /\ result'.contact = out.contact
        /\ OwnContacts(contacts', o) = out.table

ScannedAlone(o) ==
    LET out == get_upcoming_birthdays(o, OwnContacts(contacts, o), today)
    IN  /\ result'.status = IF out.raised THEN HTTP_500_INTERNAL_SERVER_ERROR
                            ELSE HTTP_200_OK
        /\ result'.list = out.list
        /\ OwnContacts(contacts', o) = OwnContacts(contacts, o)

\* the email a contact of the owner would carry after the update
EmailAfter(o, id, payload) == Patched(get_contact(id, o, contacts), payload).email

\* the operations that write no email: list, get, delete and the birthday scan
ReadsAndDeleteAlone(o) ==
    /\ \A q \in Queries :
            (result'.op = "list" /\ result'.owner = o
             /\ GetContacts(o, q.limit, q.offset, q.search)) => ListedAlone(o, q)
    /\ \A id \in ContactIds :
            (result'.op = "get" /\ result'.owner = o /\ result'.id = id
             /\ GetContact(o, id)) => GotAlone(o, id)
    /\ \A id \in ContactIds :
            (result'.op = "delete" /\ result'.owner = o /\ result'.id = id
             /\ DeleteContact(o, id)) => DeletedAlone(o, id)
    /\ (result'.op = "birthdays" /\ result'.owner = o /\ GetUpcomingBirthdays(o))
            => ScannedAlone(o)

\* C27: every contact operation of an owner (create, update, get, list,
\* delete, upcomingBirthdays) has the outcome it would have if the contacts
\* of the other users were not there; in particular create and update with
\* an email succeed or fail whether or not another user holds that email
C27_OutcomeIgnoresOtherOwners ==
    [][\A o \in Owners :
        /\ ReadsAndDeleteAlone(o)
        /\ \A b \in Bodies :
                (result'.op = "create" /\ result'.owner = o /\ CreateContact(o, b))
                => CreatedAlone(o, b)
        /\ \A id \in ContactIds, p \in Payloads :
                (result'.op = "update" /\ result'.owner = o /\ result'.id = id
                 /\ UpdateContact(o, id, p)) => UpdatedAlone(o, id, p)]_vars

\* C27 where the email written is held by no contact of another user
C27_OutcomeIgnoresOtherOwnersUnlessEmailHeld ==
    [][\A o \in Owners :
        /\ ReadsAndDeleteAlone(o)
        /\ \A b \in Bodies :
                (result'.op = "create" /\ result'.owner = o /\ CreateContact(o, b)
                 /\ ~HeldByOther(b.email, o))
                => CreatedAlone(o, b)
        /\ \A id \in ContactIds, p \in Payloads :
                (result'.op = "update" /\ result'.owner = o /\ result'.id = id
                 /\ UpdateContact(o, id, p)
                 /\ ~HeldByOther(EmailAfter(o, id, p), o))
                => UpdatedAlone(o, id, p)]_vars

\* create and update with an email that another user's contact holds fail,
\* although the owner holds no contact with that email
C27_EmailHeldByOtherRejected ==
    [][\A o \in Owners :
        /\ \A b \in Bodies :
                (result'.op = "create" /\ result'.owner = o /\ CreateContact(o, b)
                 /\ HeldByOther(b.email, o))
                => /\ result'.status = HTTP_500_INTERNAL_SERVER_ERROR
                   /\ contacts' = contacts
        /\ \A id \in ContactIds, p \in Payloads :
                (result'.op = "update" /\ result'.owner = o /\ result'.id = id
                 /\ UpdateContact(o, id, p)
                 /\ get_contact(id, o, contacts) # NoContact
                 /\ HeldByOther(EmailAfter(o, id, p), o))
                => /\ result'.status = HTTP_500_INTERNAL_SERVER_ERROR
                   /\ contacts' = contacts]_vars

====
